---- MODULE Spec2Model ----
(***************************************************************************)
(* Corrective RAG workflow (src/src/pipeline/workflow.py) together with    *)
(* the construction of its components (data_loader.py, grade_documents.py) *)
(* and the Streamlit handler that drives it (src/app.py).                  *)
(*                                                                         *)
(* Text is a sequence of tokens, so that joining and appending text are    *)
(* computed rather than assumed.  A dictionary whose keys may be missing   *)
(* (the graph state, a node's update, a search result) is a function whose *)
(* DOMAIN is the set of keys present.                                      *)
(***************************************************************************)
EXTENDS Naturals, Sequences, FiniteSets, TLC

VARIABLES pc, node, state, path, output, shown, value, answer, error,
          failedAt, query, retrieved, grades, results, genContext, genWrites,
          indexBuilds, rewritten, searchQuery, genQuestion

vars == <<pc, node, state, path, output, shown, value, answer, error,
          failedAt, query, retrieved, grades, results, genContext, genWrites,
          indexBuilds, rewritten, searchQuery, genQuestion>>

(***************************************************************************)
(* Bounds of the model and constants of the program.                       *)
(***************************************************************************)
\* number of distinct chunk contents the vector index can return
NumContents == 2
\* number of distinct texts a web search result can carry
NumWebTexts == 1
\* number of distinct non-empty queries the user can type
NumQueries == 1
\* search_kwargs={'k': 2}
K == 2
\* TavilySearchResults(max_results=3)
MaxResults == 3

Range(s) == {s[i] : i \in 1..Len(s)}

SeqsUpTo(S, n) == UNION {[1..m -> S] : m \in 0..n}

Queries == {<<"q", i>> : i \in 1..NumQueries}

\* what the question re-writer may return: a new text, or the text it got
Rewrites == {<<"rewritten">>} \cup Queries

\* what the RAG chain may return (StrOutputParser: any text, possibly empty)
Answers == {<<"a">>, <<>>}

\* langchain Document: only page_content matters to the workflow
Document(page_content) == [page_content |-> page_content]

Chunks == {Document(<<"chunk", i>>) : i \in 1..NumContents}

\* the retriever returns at most k documents, possibly the same chunk twice
Retrievable == SeqsUpTo(Chunks, K)

\* binary_score is declared str: the grader may answer anything
Grades == {"yes", "no", "Yes", ""}

WebTexts == {<<"web", i>> : i \in 1..NumWebTexts}

\* one search result: a plain string, or a dict with or without "content"
SearchResults ==
    {[str |-> t] : t \in WebTexts}
    \cup {[url |-> <<"url">>, content |-> t] : t \in WebTexts}
    \cup {[url |-> <<"url">>]}

ResultLists == SeqsUpTo(SearchResults, MaxResults)

Nodes == {"retrieve", "grade_documents", "transform_query",
          "web_search_node", "generate"}

(***************************************************************************)
(* The graph: state merge, edges and the conditional edge.                 *)
(***************************************************************************)
\* StateGraph(GraphState): a node's partial update overwrites the keys it has
Merge(s, u) ==
    [k \in DOMAIN s \cup DOMAIN u |-> IF k \in DOMAIN u THEN u[k] ELSE s[k]]

\* the edge out of web_search_node wired to END
Edge_ends_after_search(n) ==
    CASE n = "START" -> "retrieve"
      [] n = "retrieve" -> "grade_documents"
      [] n = "transform_query" -> "web_search_node"
      [] n = "web_search_node" -> "END"
      [] n = "generate" -> "END"

\* the edge out of transform_query wired straight to generate
Edge_skips_search(n) ==
    CASE n = "START" -> "retrieve"
      [] n = "retrieve" -> "grade_documents"
      [] n = "transform_query" -> "generate"
      [] n = "web_search_node" -> "generate"
      [] n = "generate" -> "END"

Edge(n) ==
    CASE n = "START" -> "retrieve"
      [] n = "retrieve" -> "grade_documents"
      [] n = "transform_query" -> "web_search_node"
      [] n = "web_search_node" -> "generate"
      [] n = "generate" -> "END"

\* the branch taken on the opposite value of the flag
decide_to_generate_inverted(s) ==
    IF s.web_search = "Yes" THEN "generate" ELSE "transform_query"

decide_to_generate(s) ==
    IF s.web_search = "Yes" THEN "transform_query" ELSE "generate"

\* the node that runs after n, given the state n left behind
NextNode(n, s) ==
    IF n = "grade_documents" THEN decide_to_generate(s) ELSE Edge(n)

(***************************************************************************)
(* The node functions, as the partial update each returns.                 *)
(***************************************************************************)
retrieve(s, documents) ==
    [documents |-> documents, question |-> s.question]

\* the grade compared without regard to case
RECURSIVE grade_loop_caseless(_, _, _, _, _)
grade_loop_caseless(documents, score, i, filtered_docs, web_search) ==
    IF i > Len(documents)
    THEN [documents |-> filtered_docs, web_search |-> web_search]
    ELSE IF score[i] \in {"yes", "Yes"}
         THEN grade_loop_caseless(documents, score, i + 1,
                                  Append(filtered_docs, documents[i]),
                                  web_search)
         ELSE grade_loop_caseless(documents, score, i + 1, filtered_docs,
                                  "Yes")

RECURSIVE grade_loop(_, _, _, _, _)
grade_loop(documents, score, i, filtered_docs, web_search) ==
    IF i > Len(documents)
    THEN [documents |-> filtered_docs, web_search |-> web_search]
    ELSE IF score[i] = "yes"
         THEN grade_loop(documents, score, i + 1,
                         Append(filtered_docs, documents[i]), web_search)
         ELSE grade_loop(documents, score, i + 1, filtered_docs, "Yes")

grade_documents(s, score) ==
    LET r == grade_loop(s.documents, score, 1, <<>>, "No")
    IN  [documents |-> r.documents, question |-> s.question,
         web_search |-> r.web_search]

\* the re-written question also returned under the key generation
transform_query_sets_generation(s, better_question) ==
    [documents |-> s.documents, question |-> better_question,
     generation |-> better_question]

\* the question read from the state returned instead of the re-written one
transform_query_keeps_question(s, better_question) ==
    [documents |-> s.documents, question |-> s.question]

transform_query(s, better_question) ==
    [documents |-> s.documents, question |-> better_question]

\* "\n".join(parts)
RECURSIVE JoinLines(_)
JoinLines(parts) ==
    IF Len(parts) = 0 THEN <<>>
    ELSE IF Len(parts) = 1 THEN parts[1]
    ELSE parts[1] \o <<"\n">> \o JoinLines(Tail(parts))

IsStr(d) == "str" \in DOMAIN d

\* str(d) of a dict result
StrOfDict(d) ==
    <<"{", "url", ":">> \o d.url
    \o (IF "content" \in DOMAIN d THEN <<",", "content", ":">> \o d.content
        ELSE <<>>)
    \o <<"}">>

\* d.get("content", str(d))
GetContent(d) == IF "content" \in DOMAIN d THEN d.content ELSE StrOfDict(d)

\* a str has no .get: the comprehension of line 213 raises on it
GetRaises(docs) ==
    /\ \E i \in 1..Len(docs) : ~IsStr(docs[i])
    /\ \E i \in 1..Len(docs) : IsStr(docs[i])

web_results(docs) ==
    IF \A i \in 1..Len(docs) : IsStr(docs[i])
    THEN JoinLines([i \in 1..Len(docs) |-> docs[i].str])
    ELSE JoinLines([i \in 1..Len(docs) |-> GetContent(docs[i])])

\* the web results returned as the only document
web_search_replaces(s, docs) ==
    [documents |-> <<Document(web_results(docs))>>,
     question |-> s.question]

web_search(s, docs) ==
    [documents |-> Append(s.documents, Document(web_results(docs))),
     question |-> s.question]

\* the generation left out of the returned update
generate_drops_generation(s, generation) ==
    [documents |-> s.documents, question |-> s.question]

generate(s, generation) ==
    [documents |-> s.documents, question |-> s.question,
     generation |-> generation]

(***************************************************************************)
(* Construction: every DataLoader().create_retriever() builds the index.   *)
(***************************************************************************)
store_data(builds) == builds + 1

create_retriever(builds) == store_data(builds)

RetrievalGrader_init(builds) == create_retriever(builds)

CRAGWorkFlow_init(builds) == RetrievalGrader_init(create_retriever(builds))

(***************************************************************************)
(* The state machine.                                                      *)
(***************************************************************************)
Init ==
    /\ pc = "idle"
    /\ node = "START"
    /\ state = <<>>
    /\ path = <<>>
    /\ output = <<>>
    /\ shown = <<>>
    /\ value = <<>>
    /\ answer = <<>>
    /\ error = "none"
    /\ failedAt = "none"
    /\ query = <<>>
    /\ retrieved = <<>>
    /\ grades = <<>>
    /\ results = <<>>
    /\ genContext = <<>>
    /\ genWrites = 0
    /\ indexBuilds = 0
    /\ rewritten = <<>>
    /\ searchQuery = <<>>
    /\ genQuestion = <<>>

History == <<retrieved, grades, results, genContext, rewritten, searchQuery,
             genQuestion>>

\* the button is pressed with a query typed in
Submit ==
    /\ pc = "idle"
    /\ \E q \in Queries : query' = q
    /\ pc' = "construct"
    /\ UNCHANGED <<node, state, path, output, shown, value, answer, error, failedAt,
                   indexBuilds, genWrites, History>>

\* the button is pressed with the input empty: st.warning
SubmitEmpty ==
    /\ pc = "idle"
    /\ pc' = "warned"
    /\ UNCHANGED <<node, state, path, output, shown, value, answer, error, failedAt,
                   query, indexBuilds, genWrites, History>>

\* workflow = CRAGWorkFlow()
Construct ==
    /\ pc = "construct"
    /\ indexBuilds' = CRAGWorkFlow_init(indexBuilds)
    /\ pc' = "built"
    /\ UNCHANGED <<node, state, path, output, shown, value, answer, error, failedAt,
                   query, genWrites, History>>

\* a fetch or the index service fails in the first or the second store_data
ConstructFail ==
    /\ pc = "construct"
    /\ \/ indexBuilds' = indexBuilds
       \/ indexBuilds' = create_retriever(indexBuilds)
    /\ pc' = "error"
    /\ error' = "custom"
    /\ failedAt' = "construct"
    /\ UNCHANGED <<node, state, path, output, shown, value, answer, query,
                   genWrites, History>>

\* app = workflow.build_graph(); app.stream({"question": query})
StartStream ==
    /\ pc = "built"
    /\ state' = [question |-> query]
    /\ node' = Edge("START")
    /\ pc' = "stream"
    /\ UNCHANGED <<path, output, shown, value, answer, error, failedAt, query,
                   indexBuilds, genWrites, History>>

\* node n returns update u: it is merged into the state and streamed
Step(n, u) ==
    /\ state' = Merge(state, u)
    /\ path' = Append(path, n)
    /\ output' = <<[key |-> n, value |-> u]>>
    /\ genWrites' = genWrites + (IF "generation" \in DOMAIN u THEN 1 ELSE 0)
    /\ node' = NextNode(n, Merge(state, u))
    /\ UNCHANGED <<pc, shown, value, answer, error, failedAt, query,
                   indexBuilds>>

\* the node raises CustomException, which leaves app.stream
Abort(n) ==
    /\ pc' = "error"
    /\ error' = "custom"
    /\ failedAt' = n
    /\ UNCHANGED <<node, state, path, output, shown, value, answer, query,
                   indexBuilds, genWrites>>

\* the body of the handler's loop over app.stream: st.write of the node name
ShowStep ==
    /\ pc = "stream" /\ output # <<>>
    /\ shown' = Append(shown, output[1].key)
    /\ value' = output[1].value
    /\ output' = <<>>
    /\ UNCHANGED <<pc, node, state, path, answer, error, failedAt, query,
                   indexBuilds, genWrites, History>>

\* the stream is resumed and runs the node the graph is at
Running(n) == pc = "stream" /\ output = <<>> /\ node = n

Retrieve ==
    /\ Running("retrieve")
    /\ \E documents \in Retrievable :
          /\ retrieved' = documents
          /\ Step("retrieve", retrieve(state, documents))
    /\ UNCHANGED <<grades, results, genContext, rewritten, searchQuery,
                   genQuestion>>

GradeDocuments ==
    /\ Running("grade_documents")
    /\ \E score \in [1..Len(state.documents) -> Grades] :
          /\ grades' = score
          /\ Step("grade_documents", grade_documents(state, score))
    /\ UNCHANGED <<retrieved, results, genContext, rewritten, searchQuery,
                   genQuestion>>

TransformQuery ==
    /\ Running("transform_query")
    /\ \E better_question \in Rewrites :
          /\ rewritten' = <<better_question>>
          /\ Step("transform_query", transform_query(state, better_question))
    /\ UNCHANGED <<retrieved, grades, results, genContext, searchQuery,
                   genQuestion>>

WebSearch ==
    /\ Running("web_search_node")
    /\ searchQuery' = <<state.question>>
    /\ \E docs \in ResultLists :
          /\ results' = docs
          /\ IF GetRaises(docs)
             THEN Abort("web_search_node")
             ELSE Step("web_search_node", web_search(state, docs))
    /\ UNCHANGED <<retrieved, grades, genContext, rewritten, genQuestion>>

Generate ==
    /\ Running("generate")
    /\ genContext' = state.documents
    /\ genQuestion' = <<state.question>>
    /\ \E generation \in Answers :
          Step("generate", generate(state, generation))
    /\ UNCHANGED <<retrieved, grades, results, rewritten, searchQuery>>

\* the exception caught and not raised again: the graph ends quietly
Raise_swallowed(n) ==
    /\ Running(n)
    /\ failedAt' = n
    /\ node' = "END"
    /\ UNCHANGED <<pc, state, path, output, shown, value, answer, error,
                   query, indexBuilds, genWrites, History>>

\* the external call of the node about to run raises
Raise(n) ==
    /\ Running(n)
    /\ Abort(n)
    /\ UNCHANGED History

\* the stream is exhausted: st.write(value["generation"])
DisplayAnswer ==
    /\ Running("END")
    /\ IF "generation" \in DOMAIN value
       THEN /\ answer' = <<value.generation>>
            /\ pc' = "done"
            /\ UNCHANGED error
       ELSE /\ pc' = "error"
            /\ error' = "unexpected"
            /\ UNCHANGED answer
    /\ UNCHANGED <<node, state, path, output, shown, value, failedAt, query,
                   indexBuilds, genWrites, History>>

Next ==
    \/ Submit
    \/ SubmitEmpty
    \/ Construct
    \/ ConstructFail
    \/ StartStream
    \/ ShowStep
    \/ Retrieve
    \/ GradeDocuments
    \/ TransformQuery
    \/ WebSearch
    \/ Generate
    \/ \E n \in Nodes : Raise(n)
    \/ DisplayAnswer

Spec == Init /\ [][Next]_vars

\* the steps of one run of the stream: synchronous, each follows the last
Run ==
    \/ ShowStep
    \/ Retrieve
    \/ GradeDocuments
    \/ TransformQuery
    \/ WebSearch
    \/ Generate
    \/ \E n \in Nodes : Raise(n)
    \/ DisplayAnswer

\* every external call returns or raises
LiveSpec == Init /\ [][Next]_vars /\ WF_vars(Run)

(***************************************************************************)
(* Vocabulary of the properties.                                           *)
(***************************************************************************)
IsPrefix(p, q) == Len(p) <= Len(q) /\ \A i \in 1..Len(p) : p[i] = q[i]

Executed(n) == n \in Range(path)

DirectPath == <<"retrieve", "grade_documents", "generate">>

FallbackPath == <<"retrieve", "grade_documents", "transform_query",
                  "web_search_node", "generate">>

\* the positions of the retrieved documents the grader answered "yes" for
YesIdx == {i \in DOMAIN grades : grades[i] = "yes"}

AllYes == YesIdx = DOMAIN grades

\* the graph is right after grade_documents and its conditional edge
JustGraded == path = <<"retrieve", "grade_documents">>

\* out is the subsequence of in at the positions idx, in order
IsSubSeqAt(out, in, idx) ==
    /\ Len(out) = Cardinality(idx)
    /\ \E f \in [1..Len(out) -> idx] :
          /\ \A a, b \in 1..Len(out) : a < b => f[a] < f[b]
          /\ \A j \in 1..Len(out) : out[j] = in[f[j]]

(***************************************************************************)
(* C1: when every retrieved document is graded "yes", the nodes executed   *)
(* are retrieve, grade_documents, generate and no other, in that order,    *)
(* and generate is given exactly the retrieved documents.                  *)
(***************************************************************************)
C1_AllYesDirect ==
    (Executed("grade_documents") /\ AllYes) =>
        /\ IsPrefix(path, DirectPath)
        /\ ~Executed("transform_query") /\ ~Executed("web_search_node")
        /\ node = "END" => (path = DirectPath /\ genContext = retrieved)

C1_Witness ==
    /\ pc = "done" /\ path = DirectPath
    /\ Len(retrieved) = K /\ AllYes /\ genContext = retrieved

C3_GradeFilters ==
    JustGraded =>
        /\ IsSubSeqAt(state.documents, retrieved, YesIdx)
        /\ state.web_search = (IF AllYes THEN "No" ELSE "Yes")

C3_Witness ==
    /\ JustGraded /\ Len(retrieved) = K
    /\ grades[1] = "Yes" /\ grades[2] = "yes"
    /\ state.documents = <<retrieved[2]>> /\ state.web_search = "Yes"


(***************************************************************************)
(* C4: after grade_documents the graph goes to generate when some          *)
(* retrieved document was graded "yes", and to transform_query when none   *)
(* was (also when nothing was retrieved).                                  *)
(***************************************************************************)
C4_AnyRelevantGenerates ==
    JustGraded =>
        /\ YesIdx # {} => node = "generate"
        /\ YesIdx = {} => node = "transform_query"

(***************************************************************************)
(* C5: generation is absent from the state until generate has run; it is   *)
(* written once, by generate, which is the last node executed and after    *)
(* which the graph is at END with generation set.                          *)
(***************************************************************************)
C5_GenerationOnce ==
    /\ "generation" \in DOMAIN state <=> Executed("generate")
    /\ genWrites = (IF Executed("generate") THEN 1 ELSE 0)
    /\ Executed("generate") =>
          /\ path[Len(path)] = "generate"
          /\ node = "END"
    /\ node = "END" => "generation" \in DOMAIN state

C5_Witness ==
    /\ pc = "done" /\ path = FallbackPath
    /\ genWrites = 1 /\ "generation" \in DOMAIN state

(***************************************************************************)
(* C6: the step of web_search_node leaves every document that was there    *)
(* in place and in order, adds exactly one Document at the end, and does   *)
(* not change the question.                                                *)
(***************************************************************************)
C6_SearchAppendsOne ==
    [][(node = "web_search_node" /\ node' # "web_search_node") =>
          /\ Len(state'.documents) = Len(state.documents) + 1
          /\ \A i \in 1..Len(state.documents) :
                state'.documents[i] = state.documents[i]
          /\ DOMAIN state'.documents[Len(state'.documents)]
                = {"page_content"}
          /\ state'.question = state.question]_vars

C6_Witness ==
    /\ node = "generate" /\ Executed("web_search_node")
    /\ Len(results) = MaxResults /\ ~IsStr(results[1])
    /\ Len(state.documents) = 2
    /\ state.documents[1] \in Range(retrieved)

(***************************************************************************)
(* C7: when the call of a node raises, the run is in error with a message  *)
(* shown, the failing node and the nodes after it have not executed,       *)
(* generation and the answer stay unset, and nothing runs afterwards; a    *)
(* failure of retrieve leaves no node executed.                            *)
(***************************************************************************)
C7_FailureAborts ==
    /\ [](failedAt \in Nodes =>
             /\ pc = "error" /\ error # "none"
             /\ ~Executed(failedAt)
             /\ IsPrefix(path, FallbackPath) \/ IsPrefix(path, DirectPath)
             /\ ~Executed("generate")
             /\ "generation" \notin DOMAIN state
             /\ answer = <<>>
             /\ failedAt = "retrieve" => path = <<>>)
    /\ [][pc # "error"]_vars

C7_Witness ==
    /\ pc = "error" /\ failedAt = "web_search_node"
    /\ path = <<"retrieve", "grade_documents", "transform_query">>
    /\ error = "custom"

(***************************************************************************)
(* C8: a run enters retrieve with only question in the state, executes no  *)
(* node twice and at most five nodes (three when transform_query is not    *)
(* taken), arrives at END only out of generate, and once streaming always  *)
(* comes to a halt.                                                        *)
(***************************************************************************)
C8_Acyclic ==
    /\ \A i, j \in 1..Len(path) : path[i] = path[j] => i = j
    /\ Len(path) <= 5
    /\ ~Executed("transform_query") => Len(path) <= 3
    /\ node = "END" => (path # <<>> /\ path[Len(path)] = "generate")
    /\ (pc = "stream" /\ path = <<>>) =>
          (node = "retrieve" /\ DOMAIN state = {"question"})

C8_Terminates ==
    /\ []C8_Acyclic
    /\ (pc = "stream") ~> (node = "END" \/ pc = "error")

C8_Witness ==
    /\ node = "END" /\ Len(path) = 5

(***************************************************************************)
(* C9: constructing the workflow builds the vector index exactly once, and *)
(* no node of a run builds it again.                                       *)
(***************************************************************************)
C9_IndexBuiltOnce ==
    /\ [](pc \in {"built", "stream", "done"} => indexBuilds = 1)
    /\ [][pc = "stream" => indexBuilds' = indexBuilds]_vars

(***************************************************************************)
(* C10: the handler shows the names of the executed nodes in the order of  *)
(* execution; when the stream ends the last value streamed is that of      *)
(* generate and carries generation, which is shown as the answer; a run    *)
(* ends in error only when something failed, and then shows a message and  *)
(* no answer.                                                              *)
(***************************************************************************)
C10_FrontEnd ==
    /\ IsPrefix(shown, path)
    /\ (pc = "stream" /\ node = "END" /\ output = <<>>) =>
          /\ shown = path
          /\ shown[Len(shown)] = "generate"
          /\ "generation" \in DOMAIN value
    /\ pc = "done" =>
          /\ shown = path
          /\ answer = <<state.generation>>
          /\ error = "none"
    /\ pc = "error" =>
          /\ failedAt # "none"
          /\ error # "none"
          /\ answer = <<>>
    /\ answer # <<>> => pc = "done"

C10_Witness ==
    /\ pc = "done" /\ shown = FallbackPath
    /\ answer = <<value.generation>> /\ value.generation # <<>>

(***************************************************************************)
(* C11: only the step of transform_query changes the question in the       *)
(* state; without transform_query generate is called with the question     *)
(* the user typed; after transform_query the web search is queried with,   *)
(* and generate is called with, what the re-writer returned; the step of   *)
(* transform_query leaves documents and web_search as they were.           *)
(***************************************************************************)
C11_QuestionFrame ==
    /\ [](/\ (genQuestion # <<>> /\ ~Executed("transform_query")) =>
                genQuestion = <<query>>
          /\ searchQuery # <<>> => searchQuery = rewritten
          /\ (genQuestion # <<>> /\ Executed("transform_query")) =>
                genQuestion = rewritten)
    /\ [][/\ ("question" \in DOMAIN state
               /\ state'.question # state.question) =>
                (node = "transform_query" /\ node' = "web_search_node")
          /\ (node = "transform_query" /\ node' # "transform_query") =>
                /\ state'.documents = state.documents
                /\ state'.web_search = state.web_search]_vars

C11_Witness ==
    /\ pc = "done" /\ path = FallbackPath
    /\ rewritten = <<(<<"rewritten">>)>> /\ rewritten # <<query>>
    /\ searchQuery = rewritten /\ genQuestion = rewritten
    /\ state.question = rewritten[1]
    /\ Len(genContext) = 2

====
